---- MODULE Spec2Model ----
(***************************************************************************)
(* Model of the pomodoro interval package: the in-memory repository        *)
(* (repository/inMemory.go) and the interval logic (pomodoro/interval.go): *)
(* NewConfig, nextCategory, newInterval, GetInterVal, Interval.Start,      *)
(* Interval.Pause and the tick loop.                                       *)
(*                                                                         *)
(* Time is counted in whole seconds (time.Second is one unit).             *)
(* Errors are strings; "nil" is success.  "panic" is a run-time panic      *)
(* (index out of range), "fatal" a fatal run-time error (sync: RUnlock of  *)
(* unlocked RWMutex): both end the process.                                *)
(***************************************************************************)
EXTENDS Integers, Sequences, FiniteSets, TLC

\* ------------------------------------------------------------------ bounds
\* largest planned duration (seconds) the lifecycle specifications draw
MaxPlanned == 3
\* number of time.Now() readings (Start calls from StateNotStarted) explored
MaxNow == 2
\* longest interval history the sequencer specification draws
MaxHist == 4
\* calls of tick that are counted (and that the two-starter specification makes)
MaxLoops == 2
\* most records the repository specification creates
MaxStore == 2
\* largest n the repository specification passes to Breaks
MaxBreaks == 2

\* ------------------------------------------------------- program constants
CategoryPomodoro == "Pomodoro"
CategoryShortBreak == "ShortBreak"
CategoryLongBreak == "LongBreak"
Categories == {CategoryPomodoro, CategoryShortBreak, CategoryLongBreak}

StateNotStarted == 0
StateRunning == 1
StatePaused == 2
StateDone == 3
StateCancelled == 4

ErrNoIntervals == "ErrNoIntervals"
ErrIntervalNotRunning == "ErrIntervalNotRunning"
ErrIntervalCompleted == "ErrIntervalCompleted"
ErrInvalidState == "ErrInvalidState"
ErrInvalidID == "ErrInvalidID"
\* an opaque failure of a Repository implementation
ErrStore == "ErrStore"

\* default durations of NewConfig, in seconds
DefaultPomodoro == 1500
DefaultShortBreak == 300
DefaultLongBreak == 900

\* the callers (goroutines) that hold Interval values: every task obtains values
\* and calls Pause; the tasks of Starters also call Start (and block in it)
Tasks == {"t1", "t2"}

\* ------------------------------------------------------------ Interval type
\* the zero value Interval{}
ZeroInterval ==
  [ID |-> 0, StartTime |-> 0, PlannedDuration |-> 0, ActualDuration |-> 0,
   Category |-> "", State |-> 0]

\* no Interval value held
NoInterval == [none |-> TRUE]

\* ------------------------------------------------------------- sync.RWMutex
\* The lock is modelled by its reader count; every repository method runs
\* as one step, so the count is 0 whenever a method begins.
RLock(rc) == rc + 1

\* RUnlock: fatal error when no read lock is held
RUnlock(rc) ==
  IF rc <= 0 THEN [rc |-> rc, err |-> "fatal"] ELSE [rc |-> rc - 1, err |-> "nil"]

\* RLocker only returns a Locker value; it acquires nothing
RLocker(rc) == rc

\* Lock waits until no reader and no writer holds the mutex
CanLock(w, rc) == ~w /\ rc = 0

\* RLock waits while a writer holds the mutex
CanRLock(w) == ~w

\* Unlock: fatal error when the write lock is not held
Unlock(w) == IF w THEN [w |-> FALSE, err |-> "nil"] ELSE [w |-> w, err |-> "fatal"]

\* ------------------------------------------------------------- inMemoryRepo
\* Create: the ID is the new length; never fails
RepoCreate(ivs, i) ==
  LET id == Len(ivs) + 1 IN
  [ivs |-> Append(ivs, [i EXCEPT !.ID = id]), id |-> id, err |-> "nil"]

\* Update: ID 0 is rejected; any other ID indexes the slice (panic when out of range)
RepoUpdate(ivs, i) ==
  IF i.ID = 0 THEN [ivs |-> ivs, err |-> ErrInvalidID]
  ELSE IF i.ID < 1 \/ i.ID > Len(ivs) THEN [ivs |-> ivs, err |-> "panic"]
  ELSE [ivs |-> [ivs EXCEPT ![i.ID] = i], err |-> "nil"]

\* ByID: ID 0 is rejected; any other ID indexes the slice (panic when out of range)
RepoByID(ivs, rc, id) ==
  IF id = 0 THEN [i |-> ZeroInterval, err |-> ErrInvalidID]
  ELSE IF id < 1 \/ id > Len(ivs) THEN [i |-> ZeroInterval, err |-> "panic"]
  ELSE [i |-> ivs[id], err |-> RUnlock(RLock(rc)).err]

\* the loop of Breaks from index k down: skip Pomodoro, append, stop when len(data) = n
RECURSIVE BreaksLoop(_, _, _, _)
BreaksLoop(ivs, k, n, data) ==
  IF k < 1 THEN data
  ELSE IF ivs[k].Category = CategoryPomodoro THEN BreaksLoop(ivs, k - 1, n, data)
  ELSE LET d == Append(data, ivs[k]) IN
       IF Len(d) = n THEN d ELSE BreaksLoop(ivs, k - 1, n, d)

\* Breaks: calls RLocker (no lock taken), defers RUnlock
RepoBreaks(ivs, rc, n) ==
  [data |-> BreaksLoop(ivs, Len(ivs), n, <<>>), err |-> RUnlock(RLocker(rc)).err]

\* Last is declared by the Repository interface; the in-memory implementation
\* is not in the sources.  fail injects an opaque store failure.
RepoLast(ivs, fail) ==
  IF fail THEN [i |-> ZeroInterval, err |-> ErrStore]
  ELSE IF Len(ivs) = 0 THEN [i |-> ZeroInterval, err |-> ErrNoIntervals]
  ELSE [i |-> ivs[Len(ivs)], err |-> "nil"]

\* ---------------------------------------------------------------- NewConfig
NewConfig(pomodoro, shortBreak, longBreak) ==
  [PomodoroDuration |-> IF pomodoro > 0 THEN pomodoro ELSE DefaultPomodoro,
   ShortBreakDuration |-> IF shortBreak > 0 THEN shortBreak ELSE DefaultShortBreak,
   LongBreakDuration |-> IF longBreak > 0 THEN longBreak ELSE DefaultLongBreak]

\* ------------------------------------------------------------- nextCategory
HasLongBreak(s) == \E k \in 1..Len(s) : s[k].Category = CategoryLongBreak

\* only a long break counts as a rest: after a short break Breaks is consulted
nextCategoryLongOnly(ivs, rc, fail) ==
  LET l == RepoLast(ivs, fail) IN
  IF l.err = ErrNoIntervals THEN [cat |-> CategoryPomodoro, err |-> "nil"]
  ELSE IF l.err # "nil" THEN [cat |-> "", err |-> l.err]
  ELSE IF l.i.Category = CategoryLongBreak
    THEN [cat |-> CategoryPomodoro, err |-> "nil"]
  ELSE LET b == RepoBreaks(ivs, rc, 3) IN
    IF b.err # "nil" THEN [cat |-> "", err |-> b.err]
    ELSE IF Len(b.data) < 3 THEN [cat |-> CategoryLongBreak, err |-> "nil"]
    ELSE IF HasLongBreak(b.data) THEN [cat |-> CategoryShortBreak, err |-> "nil"]
    ELSE [cat |-> CategoryLongBreak, err |-> "nil"]

nextCategory(ivs, rc, fail) ==
  LET l == RepoLast(ivs, fail) IN
  IF l.err = ErrNoIntervals THEN [cat |-> CategoryPomodoro, err |-> "nil"]
  ELSE IF l.err # "nil" THEN [cat |-> "", err |-> l.err]
  ELSE IF l.i.Category = CategoryLongBreak \/ l.i.Category = CategoryShortBreak
    THEN [cat |-> CategoryPomodoro, err |-> "nil"]
  ELSE LET b == RepoBreaks(ivs, rc, 3) IN
    IF b.err # "nil" THEN [cat |-> "", err |-> b.err]
    ELSE IF Len(b.data) < 3 THEN [cat |-> CategoryLongBreak, err |-> "nil"]
    ELSE IF HasLongBreak(b.data) THEN [cat |-> CategoryShortBreak, err |-> "nil"]
    ELSE [cat |-> CategoryLongBreak, err |-> "nil"]

\* -------------------------------------------------------------- newInterval
PlannedFor(cfg, category) ==
  IF category = CategoryPomodoro THEN cfg.PomodoroDuration
  ELSE IF category = CategoryShortBreak THEN cfg.ShortBreakDuration
  ELSE IF category = CategoryLongBreak THEN cfg.LongBreakDuration
  ELSE 0

newInterval(ivs, rc, cfg, fail) ==
  LET c == nextCategory(ivs, rc, fail) IN
  IF c.err # "nil" THEN [i |-> ZeroInterval, ivs |-> ivs, err |-> c.err]
  ELSE LET i == [ZeroInterval EXCEPT !.Category = c.cat,
                                     !.PlannedDuration = PlannedFor(cfg, c.cat)]
           r == RepoCreate(ivs, i) IN
       [i |-> [i EXCEPT !.ID = r.id], ivs |-> r.ivs, err |-> r.err]

\* -------------------------------------------------------------- GetInterVal
\* fail1, fail2: store failure of the Last call here and of the one in nextCategory
GetInterVal(ivs, rc, cfg, fail1, fail2) ==
  LET l == RepoLast(ivs, fail1) IN
  IF l.err # "nil" /\ l.err # ErrNoIntervals THEN [i |-> l.i, ivs |-> ivs, err |-> l.err]
  ELSE IF l.err = "nil" /\ l.i.State # StateCancelled /\ l.i.State # StateDone
    THEN [i |-> l.i, ivs |-> ivs, err |-> "nil"]
  ELSE newInterval(ivs, rc, cfg, fail2)

\* the StateRunning case is missing: a running value falls to the default case
StartNoRunningCase(i, ivs, clock) ==
  IF i.State = StateNotStarted \/ i.State = StatePaused THEN
    LET j == [i EXCEPT !.StartTime = IF i.State = StateNotStarted THEN clock ELSE @,
                       !.State = StateRunning]
        u == RepoUpdate(ivs, j) IN
    IF u.err # "nil" THEN [ivs |-> ivs, err |-> u.err, enter |-> FALSE]
    ELSE [ivs |-> u.ivs, err |-> "nil", enter |-> TRUE]
  ELSE IF i.State = StateCancelled \/ i.State = StateDone
    THEN [ivs |-> ivs, err |-> ErrIntervalCompleted, enter |-> FALSE]
  ELSE [ivs |-> ivs, err |-> ErrInvalidState, enter |-> FALSE]

\* StateDone is listed with StatePaused: a completed interval is resumed
StartResumesDone(i, ivs, clock) ==
  IF i.State = StateRunning THEN [ivs |-> ivs, err |-> "nil", enter |-> FALSE]
  ELSE IF i.State = StateNotStarted \/ i.State = StatePaused \/ i.State = StateDone THEN
    LET j == [i EXCEPT !.StartTime = IF i.State = StateNotStarted THEN clock ELSE @,
                       !.State = StateRunning]
        u == RepoUpdate(ivs, j) IN
    IF u.err # "nil" THEN [ivs |-> ivs, err |-> u.err, enter |-> FALSE]
    ELSE [ivs |-> u.ivs, err |-> "nil", enter |-> TRUE]
  ELSE IF i.State = StateCancelled
    THEN [ivs |-> ivs, err |-> ErrIntervalCompleted, enter |-> FALSE]
  ELSE [ivs |-> ivs, err |-> ErrInvalidState, enter |-> FALSE]

\* ----------------------------------------------------- Interval.Start switch
\* The part of Start before the call of tick: enter says whether tick is called.
Start(i, ivs, clock) ==
  IF i.State = StateRunning THEN [ivs |-> ivs, err |-> "nil", enter |-> FALSE]
  ELSE IF i.State = StateNotStarted \/ i.State = StatePaused THEN
    LET j == [i EXCEPT !.StartTime = IF i.State = StateNotStarted THEN clock ELSE @,
                       !.State = StateRunning]
        u == RepoUpdate(ivs, j) IN
    IF u.err # "nil" THEN [ivs |-> ivs, err |-> u.err, enter |-> FALSE]
    ELSE [ivs |-> u.ivs, err |-> "nil", enter |-> TRUE]
  ELSE IF i.State = StateCancelled \/ i.State = StateDone
    THEN [ivs |-> ivs, err |-> ErrIntervalCompleted, enter |-> FALSE]
  ELSE [ivs |-> ivs, err |-> ErrInvalidState, enter |-> FALSE]

\* ------------------------------------------------------------ Interval.Pause
Pause(i, ivs) ==
  IF i.State # StateRunning THEN [ivs |-> ivs, err |-> ErrIntervalNotRunning]
  ELSE RepoUpdate(ivs, [i EXCEPT !.State = StatePaused])

\* ==================================================================== state
VARIABLES
  intervals,    \* inMemoryRepo.intervals
  readerCount,  \* read locks held on the repository's RWMutex
  writer,       \* the write lock of the repository's RWMutex is held
  op,           \* per task: the repository method it is executing
  config,       \* the IntervalConfig
  now,          \* the value the next time.Now() returns
  crashed,      \* the process has ended by a panic or a fatal error
  snap,         \* per task: the Interval value it holds (Start/Pause receiver)
  ret,          \* the call that returned in the step just taken, if any
  eng,          \* per task: its invocation of tick (position, locals, timers, callbacks)
  ctx,          \* per task: the context passed to Start
  call,         \* the direct call of the sequencer / factory made in the step just taken
  hist          \* what has happened so far (observer, read by no operation)

vars == <<intervals, readerCount, writer, op, config, now, crashed, snap, ret, eng, ctx, call, hist>>

\* an invocation of tick that is not running (before the first Start).
\* pc: position; id: the id parameter; i: the branch's local i; rem: the duration
\* given to time.After; fired: ticks the ticker has delivered; expire: the state of
\* the time.After channel; start, periodic, end: calls of the three callbacks
IdleEng ==
  [pc |-> "idle", id |-> 0, i |-> ZeroInterval, rem |-> 0, fired |-> 0,
   expire |-> "armed", start |-> 0, periodic |-> 0, end |-> 0]

\* a context that is not cancelled; at: where tick was when it was cancelled
FreshCtx == [done |-> FALSE, at |-> "none"]

NoRet == [t |-> "none", op |-> "none", err |-> "nil"]
NoCall == [op |-> "none"]

\* starts: calls of tick so far (MaxLoops stands for MaxLoops or more); paused: a Pause has
\* persisted; cancelled: a context was cancelled; frozen: <<id, ActualDuration>>
\* written by a cancellation branch; held: <<id, ActualDuration>> written by a
\* Pause that persisted while a tick loop was running, until the next call of tick
NoHist ==
  [starts |-> 0, paused |-> FALSE, cancelled |-> FALSE, frozen |-> <<>>, held |-> <<>>]

\* no repository method in progress.  name: the method; pc: its position;
\* iv: its Interval argument; n: its integer argument (id or n); holds: the lock
\* it has acquired; id, data, err: its results
IdleOp ==
  [name |-> "none", pc |-> "idle", iv |-> ZeroInterval, n |-> 0, holds |-> "none",
   id |-> 0, data |-> <<>>, err |-> "nil"]

\* errors that end the process
Deadly(err) == err = "panic" \/ err = "fatal"

\* ------------------------------------------------------------------- Init
\* after NewInMemoryRepo and NewConfig: empty repository, nobody holds a value
Init ==
  /\ intervals = <<>>
  /\ readerCount = 0
  /\ writer = FALSE
  /\ op = [t \in Tasks |-> IdleOp]
  /\ \E p \in 1..MaxPlanned : config = NewConfig(p, 0, 0)
  /\ now = 1
  /\ crashed = FALSE
  /\ snap = [t \in Tasks |-> NoInterval]
  /\ ret = NoRet
  /\ eng = [t \in Tasks |-> IdleEng]
  /\ ctx = [t \in Tasks |-> FreshCtx]
  /\ call = NoCall
  /\ hist = NoHist

\* --------------------------------------------------------- caller operations
\* a task obtains its Interval value with GetInterVal
GetInterValCall(t) ==
  /\ ~crashed
  /\ eng[t].pc = "idle"
  /\ LET r == GetInterVal(intervals, readerCount, config, FALSE, FALSE) IN
     /\ intervals' = r.ivs
     /\ snap' = IF r.err = "nil" THEN [snap EXCEPT ![t] = r.i] ELSE snap
     /\ ret' = [t |-> t, op |-> "GetInterVal", err |-> r.err]
     /\ crashed' = Deadly(r.err)
  /\ UNCHANGED <<readerCount, writer, op, config, now, eng, ctx, call, hist>>

\* i.Start(ctx, config, start, periodic, end) up to the call of tick
StartCall(t) ==
  /\ ~crashed
  /\ eng[t].pc = "idle"
  /\ snap[t] # NoInterval
  /\ snap[t].State = StateNotStarted => now <= MaxNow
  /\ LET r == Start(snap[t], intervals, now) IN
     /\ intervals' = r.ivs
     /\ now' = IF snap[t].State = StateNotStarted THEN now + 1 ELSE now
     /\ crashed' = Deadly(r.err)
     /\ IF r.enter
          THEN /\ eng' = [eng EXCEPT ![t] = [IdleEng EXCEPT !.pc = "enter", !.id = snap[t].ID]]
               /\ ret' = NoRet
               /\ hist' = [hist EXCEPT !.starts = IF @ < MaxLoops THEN @ + 1 ELSE @, !.held = <<>>]
          ELSE /\ ret' = [t |-> t, op |-> "Start", err |-> r.err]
               /\ UNCHANGED <<eng, hist>>
  /\ UNCHANGED <<readerCount, writer, op, config, snap, ctx, call>>

\* i.Pause(config)
PauseCall(t) ==
  /\ ~crashed
  /\ eng[t].pc = "idle"
  /\ snap[t] # NoInterval
  /\ LET r == Pause(snap[t], intervals) IN
     /\ intervals' = r.ivs
     /\ ret' = [t |-> t, op |-> "Pause", err |-> r.err]
     /\ crashed' = Deadly(r.err)
     /\ hist' = IF r.err = "nil" /\ snap[t].State = StateRunning
                THEN [hist EXCEPT !.paused = TRUE,
                                  !.held = IF \E u \in Tasks : eng[u].pc # "idle"
                                           THEN <<snap[t].ID, snap[t].ActualDuration>>
                                           ELSE @]
                ELSE hist
  /\ UNCHANGED <<readerCount, writer, op, config, now, snap, eng, ctx, call>>

\* --------------------------------------------------------------------- tick
\* The select statement.  A goroutine blocked in select is woken by the first
\* channel that becomes ready and runs that case; when it reaches select with
\* several channels ready, any of them is taken.
\* Timing: handling one event takes less than the ticker's period, so a tick is
\* delivered only to a loop that is blocked in select; the time.After channel,
\* created after the ticker with a whole number rem of seconds, becomes ready
\* after the rem-th tick and before the next one.

\* the cases ready when the loop reaches select (the ticker's channel is empty then)
Ready(e, c) ==
  (IF e.expire = "ready" THEN {"expire"} ELSE {}) \cup (IF c.done THEN {"cancel"} ELSE {})

SelectTargets(e, c) == IF Ready(e, c) = {} THEN {"select"} ELSE Ready(e, c)

\* the loop goes to case n (or blocks in select)
Arrive(e, n) == [e EXCEPT !.pc = n, !.expire = IF n = "expire" THEN "taken" ELSE @]

\* the cancellation does not wake the loop: it is seen when the loop next polls
WakePolled(e, n) == IF e.pc = "select" /\ n # "cancel" THEN [e EXCEPT !.pc = n] ELSE e

\* a channel becomes ready: a loop blocked in select runs case n, a busy loop carries on
Wake(e, n) == IF e.pc = "select" THEN [e EXCEPT !.pc = n] ELSE e

\* line 144: the duration given to time.After
Remaining(i) == i.PlannedDuration - i.ActualDuration

\* the increment is lost
IncActualLost(i) == i

\* line 158: i.ActualDuration += time.Second
IncActual(i) == [i EXCEPT !.ActualDuration = @ + 1]

\* tick, and with it Start, returns err; the context of the call is gone
Finish(t, err) ==
  /\ eng' = [eng EXCEPT ![t] = IdleEng]
  /\ ctx' = [ctx EXCEPT ![t] = FreshCtx]
  /\ ret' = [t |-> t, op |-> "Start", err |-> err]
  /\ crashed' = Deadly(err)

\* lines 136-145: ticker, ByID, expire, start(i); then the first select
TickEnter(t) ==
  /\ ~crashed
  /\ eng[t].pc = "enter"
  /\ LET r == RepoByID(intervals, readerCount, eng[t].id) IN
     IF r.err # "nil" THEN Finish(t, r.err)
     ELSE /\ \E n \in SelectTargets(eng[t], ctx[t]) :
               eng' = [eng EXCEPT ![t] =
                         Arrive([@ EXCEPT !.rem = Remaining(r.i),
                                          !.start = @ + 1], n)]
          /\ ret' = NoRet
          /\ UNCHANGED <<crashed, ctx>>
  /\ UNCHANGED <<intervals, readerCount, writer, op, config, now, snap, call, hist>>

\* the ticker delivers a tick
TickFire(t) ==
  /\ ~crashed
  /\ eng[t].pc = "select"
  /\ eng[t].fired < eng[t].rem
  /\ eng' = [eng EXCEPT ![t] = Wake([@ EXCEPT !.fired = @ + 1], "tick")]
  /\ ret' = NoRet
  /\ UNCHANGED <<intervals, readerCount, writer, op, config, now, crashed, snap, ctx, call, hist>>

\* the time.After channel becomes ready
ExpireFire(t) ==
  /\ ~crashed
  /\ eng[t].pc \notin {"idle", "enter"}
  /\ eng[t].expire = "armed"
  /\ eng[t].fired >= eng[t].rem
  /\ eng' = [eng EXCEPT ![t] =
               IF @.pc = "select" THEN Arrive(Wake(@, "expire"), "expire")
               ELSE [@ EXCEPT !.expire = "ready"]]
  /\ ret' = NoRet
  /\ UNCHANGED <<intervals, readerCount, writer, op, config, now, crashed, snap, ctx, call, hist>>

\* the caller cancels the context of a Start that has not returned
Cancel(t) ==
  /\ ~crashed
  /\ eng[t].pc # "idle"
  /\ ~ctx[t].done
  /\ ctx' = [ctx EXCEPT ![t] = [done |-> TRUE,
                                at |-> IF eng[t].pc = "select" THEN "waiting" ELSE "busy"]]
  /\ eng' = [eng EXCEPT ![t] = Wake(@, "cancel")]
  /\ ret' = NoRet
  /\ hist' = [hist EXCEPT !.cancelled = TRUE]
  /\ UNCHANGED <<intervals, readerCount, writer, op, config, now, crashed, snap, call>>

\* the tick branch returns when it reads StateRunning instead of StatePaused
TickReadReturnsRunning(t) ==
  /\ ~crashed
  /\ eng[t].pc = "tick"
  /\ LET r == RepoByID(intervals, readerCount, eng[t].id) IN
     IF r.err # "nil" THEN Finish(t, r.err)
     ELSE IF r.i.State = StateRunning THEN Finish(t, "nil")
     ELSE /\ eng' = [eng EXCEPT ![t] =
                       [@ EXCEPT !.pc = "tickUpd",
                                 !.i = IncActual(r.i)]]
          /\ ret' = NoRet
          /\ UNCHANGED <<crashed, ctx>>
  /\ UNCHANGED <<intervals, readerCount, writer, op, config, now, snap, call, hist>>

\* case <-ticker.C, lines 150-158: ByID, the Paused test, the increment of the local i
TickRead(t) ==
  /\ ~crashed
  /\ eng[t].pc = "tick"
  /\ LET r == RepoByID(intervals, readerCount, eng[t].id) IN
     IF r.err # "nil" THEN Finish(t, r.err)
     ELSE IF r.i.State = StatePaused THEN Finish(t, "nil")
     ELSE /\ eng' = [eng EXCEPT ![t] =
                       [@ EXCEPT !.pc = "tickUpd",
                                 !.i = IncActual(r.i)]]
          /\ ret' = NoRet
          /\ UNCHANGED <<crashed, ctx>>
  /\ UNCHANGED <<intervals, readerCount, writer, op, config, now, snap, call, hist>>

\* lines 159-162: Update(i), periodic(i); then select again
TickUpdate(t) ==
  /\ ~crashed
  /\ eng[t].pc = "tickUpd"
  /\ LET u == RepoUpdate(intervals, eng[t].i) IN
     /\ intervals' = u.ivs
     /\ IF u.err # "nil" THEN Finish(t, u.err)
        ELSE /\ \E n \in SelectTargets(eng[t], ctx[t]) :
                  eng' = [eng EXCEPT ![t] =
                            Arrive([@ EXCEPT !.periodic = @ + 1, !.i = ZeroInterval], n)]
             /\ ret' = NoRet
             /\ UNCHANGED <<crashed, ctx>>
  /\ UNCHANGED <<readerCount, writer, op, config, now, snap, call, hist>>

\* case <-expire, lines 164-169: ByID, i.State = StateDone, end(i)
ExpireRead(t) ==
  /\ ~crashed
  /\ eng[t].pc = "expire"
  /\ LET r == RepoByID(intervals, readerCount, eng[t].id) IN
     IF r.err # "nil" THEN Finish(t, r.err)
     ELSE /\ eng' = [eng EXCEPT ![t] =
                       [@ EXCEPT !.pc = "expireUpd", !.end = @ + 1,
                                 !.i = [r.i EXCEPT !.State = StateDone]]]
          /\ ret' = NoRet
          /\ UNCHANGED <<crashed, ctx>>
  /\ UNCHANGED <<intervals, readerCount, writer, op, config, now, snap, call, hist>>

\* the expiry branch persists and goes on with the loop instead of returning
ExpireUpdateContinues(t) ==
  /\ ~crashed
  /\ eng[t].pc = "expireUpd"
  /\ LET u == RepoUpdate(intervals, eng[t].i) IN
     /\ intervals' = u.ivs
     /\ IF u.err # "nil" THEN Finish(t, u.err)
        ELSE /\ \E n \in SelectTargets(eng[t], ctx[t]) :
                  eng' = [eng EXCEPT ![t] = Arrive([@ EXCEPT !.i = ZeroInterval], n)]
             /\ ret' = NoRet
             /\ UNCHANGED <<crashed, ctx>>
  /\ UNCHANGED <<readerCount, writer, op, config, now, snap, call, hist>>

\* line 170: return config.repo.Update(i)
ExpireUpdate(t) ==
  /\ ~crashed
  /\ eng[t].pc = "expireUpd"
  /\ LET u == RepoUpdate(intervals, eng[t].i) IN
     /\ intervals' = u.ivs
     /\ Finish(t, u.err)
  /\ UNCHANGED <<readerCount, writer, op, config, now, snap, call, hist>>

\* case <-ctx.Done(), lines 172-176: ByID, i.State = StateCancelled
CancelRead(t) ==
  /\ ~crashed
  /\ eng[t].pc = "cancel"
  /\ LET r == RepoByID(intervals, readerCount, eng[t].id) IN
     IF r.err # "nil" THEN Finish(t, r.err)
     ELSE /\ eng' = [eng EXCEPT ![t] =
                       [@ EXCEPT !.pc = "cancelUpd",
                                 !.i = [r.i EXCEPT !.State = StateCancelled]]]
          /\ ret' = NoRet
          /\ UNCHANGED <<crashed, ctx>>
  /\ UNCHANGED <<intervals, readerCount, writer, op, config, now, snap, call, hist>>

\* line 177: return config.repo.Update(i)
CancelUpdate(t) ==
  /\ ~crashed
  /\ eng[t].pc = "cancelUpd"
  /\ LET u == RepoUpdate(intervals, eng[t].i) IN
     /\ intervals' = u.ivs
     /\ Finish(t, u.err)
     /\ hist' = IF u.err = "nil"
                THEN [hist EXCEPT !.frozen = <<eng[t].i.ID, eng[t].i.ActualDuration>>]
                ELSE hist
  /\ UNCHANGED <<readerCount, writer, op, config, now, snap, call>>

\* ------------------------------------------------------------ specification
\* the steps of the program when the tasks of S are the ones that call Start
NextWith(S) ==
  \E t \in Tasks :
    \/ GetInterValCall(t)
    \/ (t \in S /\ StartCall(t))
    \/ PauseCall(t)
    \/ Cancel(t)
    \/ TickEnter(t)
    \/ TickFire(t)
    \/ ExpireFire(t)
    \/ TickRead(t)
    \/ TickUpdate(t)
    \/ ExpireRead(t)
    \/ ExpireUpdate(t)
    \/ CancelRead(t)
    \/ CancelUpdate(t)

\* one task runs the timer (it blocks in Start), the other controls it
Next == NextWith({"t1"})

Spec == Init /\ [][Next]_vars

\* the steps of the call of tick by task t, and of its ticker and timer
Engine(t) ==
  \/ TickEnter(t)
  \/ TickFire(t)
  \/ ExpireFire(t)
  \/ TickRead(t)
  \/ TickUpdate(t)
  \/ ExpireRead(t)
  \/ ExpireUpdate(t)
  \/ CancelRead(t)
  \/ CancelUpdate(t)

\* The goroutine in tick is scheduled whenever it can run, and the ticker and the
\* timer fire as time passes: a step of the loop that stays possible is taken.
\* Callers are free to call, or not, GetInterVal, Start, Pause and cancel.
SpecLive == Spec /\ \A t \in Tasks : WF_vars(Engine(t))

\* ---------------------------------------------------- two tasks call Start
\* Both tasks obtain values and call Start and Pause on them; tick is called at
\* most MaxLoops times in all, and no context is cancelled.
NextTwo ==
  \E t \in Tasks :
    \/ GetInterValCall(t)
    \/ (hist.starts < MaxLoops /\ StartCall(t))
    \/ PauseCall(t)
    \/ TickEnter(t)
    \/ TickFire(t)
    \/ ExpireFire(t)
    \/ TickRead(t)
    \/ TickUpdate(t)
    \/ ExpireRead(t)
    \/ ExpireUpdate(t)

SpecTwo == Init /\ [][NextTwo]_vars

\* ------------------------------------------- Start and Pause on any receiver
\* The receiver of Start and Pause is a value the caller supplies: the
\* repository holds one record in any state, and task t1 holds a value with any
\* ID, State (also outside the five constants) and ActualDuration.
InitCall ==
  /\ \E p \in 1..MaxPlanned, st \in StateNotStarted..StateCancelled, a \in 0..MaxPlanned :
       /\ a <= p
       /\ config = NewConfig(p, 0, 0)
       /\ intervals = << [ID |-> 1, StartTime |-> IF st = StateNotStarted THEN 0 ELSE 1,
                          PlannedDuration |-> p, ActualDuration |-> a,
                          Category |-> CategoryPomodoro, State |-> st] >>
  /\ \E id \in 0..2, st \in (StateNotStarted - 1)..(StateCancelled + 1), a \in 0..MaxPlanned :
       /\ a <= intervals[1].PlannedDuration
       /\ snap = [t \in Tasks |->
                   IF t = "t1"
                     THEN [intervals[1] EXCEPT !.ID = id, !.State = st, !.ActualDuration = a]
                     ELSE NoInterval]
  /\ readerCount = 0
  /\ writer = FALSE
  /\ op = [t \in Tasks |-> IdleOp]
  /\ now = 2
  /\ crashed = FALSE
  /\ ret = NoRet
  /\ eng = [t \in Tasks |-> IdleEng]
  /\ ctx = [t \in Tasks |-> FreshCtx]
  /\ call = NoCall
  /\ hist = NoHist

NextCall ==
  \E t \in Tasks :
    \/ StartCall(t)
    \/ PauseCall(t)
    \/ Cancel(t)
    \/ TickEnter(t)
    \/ TickFire(t)
    \/ ExpireFire(t)
    \/ TickRead(t)
    \/ TickUpdate(t)
    \/ ExpireRead(t)
    \/ ExpireUpdate(t)
    \/ CancelRead(t)
    \/ CancelUpdate(t)

SpecCall == InitCall /\ [][NextCall]_vars

\* ------------------------------------------------- sequencer and factory
\* Callers fill the repository through Create (any category; a record that was
\* never started or one that is done) and call nextCategory and GetInterVal.
CreateCall ==
  /\ ~crashed
  /\ Len(intervals) < MaxHist
  /\ \E c \in Categories, st \in {StateNotStarted, StateDone} :
       LET d == PlannedFor(config, c)
           i == [ZeroInterval EXCEPT !.Category = c, !.State = st, !.PlannedDuration = d,
                                     !.StartTime = IF st = StateDone THEN 1 ELSE 0,
                                     !.ActualDuration = IF st = StateDone THEN d ELSE 0] IN
       intervals' = RepoCreate(intervals, i).ivs
  /\ call' = NoCall
  /\ UNCHANGED <<readerCount, writer, op, config, now, crashed, snap, ret, eng, ctx, hist>>

NextCategoryCall ==
  /\ ~crashed
  /\ \E fail \in BOOLEAN :
       LET r == nextCategory(intervals, readerCount, fail) IN
       /\ call' = [op |-> "nextCategory", fail |-> fail, res |-> r]
       /\ crashed' = Deadly(r.err)
  /\ UNCHANGED <<intervals, readerCount, writer, op, config, now, snap, ret, eng, ctx, hist>>

FactoryCall ==
  /\ ~crashed
  /\ \E fail1 \in BOOLEAN, fail2 \in BOOLEAN :
       LET r == GetInterVal(intervals, readerCount, config, fail1, fail2) IN
       /\ call' = [op |-> "GetInterVal", fail1 |-> fail1, fail2 |-> fail2,
                   pre |-> intervals, res |-> [i |-> r.i, err |-> r.err]]
       /\ intervals' = r.ivs
       /\ crashed' = Deadly(r.err)
  /\ UNCHANGED <<readerCount, writer, op, config, now, snap, ret, eng, ctx, hist>>

InitSeq ==
  /\ intervals = <<>>
  /\ readerCount = 0
  /\ writer = FALSE
  /\ op = [t \in Tasks |-> IdleOp]
  /\ config \in {NewConfig(0, 0, 0), NewConfig(2, 1, 3)}
  /\ now = 1
  /\ crashed = FALSE
  /\ snap = [t \in Tasks |-> NoInterval]
  /\ ret = NoRet
  /\ eng = [t \in Tasks |-> IdleEng]
  /\ ctx = [t \in Tasks |-> FreshCtx]
  /\ call = NoCall
  /\ hist = NoHist

NextSeq == CreateCall \/ NextCategoryCall \/ FactoryCall

SpecSeq == InitSeq /\ [][NextSeq]_vars

\* ------------------------------------------- the repository, step by step
\* Two tasks call the methods of inMemoryRepo concurrently.  A method is three
\* steps: the lock call of its first line, its body, and the deferred unlock
\* with the return.  holds records the lock the method's first line acquired.
StoreIDs == (0 - 1)..(MaxStore + 1)

BeginOp(t, name, iv, n, holds) ==
  op' = [op EXCEPT ![t] = [IdleOp EXCEPT !.name = name, !.pc = "body",
                                          !.iv = iv, !.n = n, !.holds = holds]]

\* Create, line 40: r.Lock()
CreateBegin(t) ==
  /\ ~crashed
  /\ op[t].pc = "idle"
  /\ Len(intervals) < MaxStore
  /\ CanLock(writer, readerCount)
  /\ writer' = TRUE
  /\ \E c \in Categories : BeginOp(t, "Create", [ZeroInterval EXCEPT !.Category = c], 0, "write")
  /\ call' = NoCall
  /\ UNCHANGED <<intervals, readerCount, config, now, crashed, snap, ret, eng, ctx, hist>>

\* Create, lines 43-47: the ID, the append
CreateBody(t) ==
  /\ ~crashed
  /\ op[t].pc = "body"
  /\ op[t].name = "Create"
  /\ LET r == RepoCreate(intervals, op[t].iv) IN
     /\ intervals' = r.ivs
     /\ op' = [op EXCEPT ![t] = [@ EXCEPT !.pc = "end", !.id = r.id, !.err = r.err]]
  /\ call' = NoCall
  /\ UNCHANGED <<readerCount, writer, config, now, crashed, snap, ret, eng, ctx, hist>>

\* Update, line 56: r.Lock()
UpdateBegin(t) ==
  /\ ~crashed
  /\ op[t].pc = "idle"
  /\ CanLock(writer, readerCount)
  /\ writer' = TRUE
  /\ \E id \in StoreIDs :
       BeginOp(t, "Update",
               [ZeroInterval EXCEPT !.ID = id, !.Category = CategoryPomodoro,
                                    !.State = StateRunning],
               0, "write")
  /\ call' = NoCall
  /\ UNCHANGED <<intervals, readerCount, config, now, crashed, snap, ret, eng, ctx, hist>>

\* Update, lines 58-63: the ID test, the indexed assignment
UpdateBody(t) ==
  /\ ~crashed
  /\ op[t].pc = "body"
  /\ op[t].name = "Update"
  /\ LET r == RepoUpdate(intervals, op[t].iv) IN
     /\ intervals' = r.ivs
     /\ op' = [op EXCEPT ![t] = [@ EXCEPT !.pc = "end", !.err = r.err]]
     /\ crashed' = Deadly(r.err)
  /\ call' = NoCall
  /\ UNCHANGED <<readerCount, writer, config, now, snap, ret, eng, ctx, hist>>

\* ByID, line 67: r.RLock()
ByIDBegin(t) ==
  /\ ~crashed
  /\ op[t].pc = "idle"
  /\ CanRLock(writer)
  /\ readerCount' = RLock(readerCount)
  /\ \E id \in StoreIDs : BeginOp(t, "ByID", ZeroInterval, id, "read")
  /\ call' = NoCall
  /\ UNCHANGED <<intervals, writer, config, now, crashed, snap, ret, eng, ctx, hist>>

\* ByID, lines 69-75: the ID test, the indexed read
ByIDBody(t) ==
  /\ ~crashed
  /\ op[t].pc = "body"
  /\ op[t].name = "ByID"
  /\ LET r == RepoByID(intervals, readerCount, op[t].n) IN
     /\ op' = [op EXCEPT ![t] = [@ EXCEPT !.pc = "end", !.data = <<r.i>>, !.err = r.err]]
     /\ crashed' = Deadly(r.err)
  /\ call' = NoCall
  /\ UNCHANGED <<intervals, readerCount, writer, config, now, snap, ret, eng, ctx, hist>>

\* Breaks, line 79: r.RLocker()
BreaksBegin(t) ==
  /\ ~crashed
  /\ op[t].pc = "idle"
  /\ readerCount' = RLocker(readerCount)
  /\ \E n \in 0..MaxBreaks : BeginOp(t, "Breaks", ZeroInterval, n, "none")
  /\ call' = NoCall
  /\ UNCHANGED <<intervals, writer, config, now, crashed, snap, ret, eng, ctx, hist>>

\* Breaks, lines 81-92: the loop over the records
BreaksBody(t) ==
  /\ ~crashed
  /\ op[t].pc = "body"
  /\ op[t].name = "Breaks"
  /\ op' = [op EXCEPT ![t] =
              [@ EXCEPT !.pc = "end",
                        !.data = BreaksLoop(intervals, Len(intervals), op[t].n, <<>>)]]
  /\ call' = NoCall
  /\ UNCHANGED <<intervals, readerCount, writer, config, now, crashed, snap, ret, eng, ctx, hist>>

\* the method that returned and its error value
Returned(o, err) == [op |-> o.name, err |-> err]

\* Create and Update, lines 41 and 57: the deferred r.Unlock(), then the return
WriteEnd(t) ==
  /\ ~crashed
  /\ op[t].pc = "end"
  /\ op[t].name \in {"Create", "Update"}
  /\ LET u == Unlock(writer) IN
     /\ writer' = u.w
     /\ crashed' = Deadly(u.err)
     /\ call' = Returned(op[t], IF Deadly(u.err) THEN u.err ELSE op[t].err)
  /\ op' = [op EXCEPT ![t] = IdleOp]
  /\ UNCHANGED <<intervals, readerCount, config, now, snap, ret, eng, ctx, hist>>

\* ByID and Breaks, lines 68 and 80: the deferred r.RUnlock(), then the return
ReadEnd(t) ==
  /\ ~crashed
  /\ op[t].pc = "end"
  /\ op[t].name \in {"ByID", "Breaks"}
  /\ LET u == RUnlock(readerCount) IN
     /\ readerCount' = u.rc
     /\ crashed' = Deadly(u.err)
     /\ call' = Returned(op[t], IF Deadly(u.err) THEN u.err ELSE op[t].err)
  /\ op' = [op EXCEPT ![t] = IdleOp]
  /\ UNCHANGED <<intervals, writer, config, now, snap, ret, eng, ctx, hist>>

InitStore ==
  /\ intervals = <<>>
  /\ readerCount = 0
  /\ writer = FALSE
  /\ op = [t \in Tasks |-> IdleOp]
  /\ config = NewConfig(0, 0, 0)
  /\ now = 1
  /\ crashed = FALSE
  /\ snap = [t \in Tasks |-> NoInterval]
  /\ ret = NoRet
  /\ eng = [t \in Tasks |-> IdleEng]
  /\ ctx = [t \in Tasks |-> FreshCtx]
  /\ call = NoCall
  /\ hist = NoHist

NextStore ==
  \E t \in Tasks :
    \/ CreateBegin(t)
    \/ CreateBody(t)
    \/ UpdateBegin(t)
    \/ UpdateBody(t)
    \/ ByIDBegin(t)
    \/ ByIDBody(t)
    \/ BreaksBegin(t)
    \/ BreaksBody(t)
    \/ WriteEnd(t)
    \/ ReadEnd(t)

SpecStore == InitStore /\ [][NextStore]_vars

\* =================================================================== claims
\* the stored record with this id
Stored(id) == intervals[id]

\* tick has been called once, no Pause has persisted and no context was cancelled
Clean == hist.starts = 1 /\ ~hist.paused /\ ~hist.cancelled

\* C1: in a run started once from StateNotStarted, never paused or cancelled,
\* the stored ActualDuration is the number of ticks the loop has processed (each
\* processed tick raises it by one); when the stored state is StateDone the
\* ActualDuration equals the PlannedDuration and the loop has returned (no tick
\* is processed after Done); and Start returns nil only in that state.
C1_UninterruptedRun ==
  Clean =>
    \A k \in 1..Len(intervals) :
      /\ \A t \in Tasks :
           eng[t].pc \notin {"idle", "enter"} => Stored(k).ActualDuration = eng[t].periodic
      /\ Stored(k).State = StateDone =>
           /\ Stored(k).ActualDuration = Stored(k).PlannedDuration
           /\ \A t \in Tasks : eng[t].pc = "idle"
      /\ (ret.op = "Start" /\ ret.err = "nil") =>
           /\ Stored(k).State = StateDone
           /\ Stored(k).ActualDuration = Stored(k).PlannedDuration

C1_Witness ==
  /\ Clean
  /\ ret = [t |-> "t1", op |-> "Start", err |-> "nil"]
  /\ Len(intervals) = 1
  /\ Stored(1).State = StateDone
  /\ Stored(1).ActualDuration = Stored(1).PlannedDuration
  /\ Stored(1).PlannedDuration >= 2

\* C2: a loop in its cancellation branch has not called end, and once a
\* cancellation branch has persisted StateCancelled with the ActualDuration it
\* read, the stored ActualDuration keeps that value ever after.
C2_CancelFreezes ==
  /\ \A t \in Tasks : eng[t].pc \in {"cancel", "cancelUpd"} => eng[t].end = 0
  /\ hist.frozen # <<>> => Stored(hist.frozen[1]).ActualDuration = hist.frozen[2]

\* C3: with no cancellation, from the moment a Pause persists while a tick loop is
\* running until the next call of tick, the stored state is StatePaused and the
\* stored ActualDuration is the one that Pause persisted.
C3_PauseHolds ==
  (hist.held # <<>> /\ ~hist.cancelled) =>
    /\ Stored(hist.held[1]).State = StatePaused
    /\ Stored(hist.held[1]).ActualDuration = hist.held[2]

\* C4: after a context is cancelled while its loop is blocked in select, the loop
\* is in its cancellation branch until it returns: it processes no tick and no
\* expiry after the signal.
C4_CancelWhileWaiting ==
  \A t \in Tasks :
    ctx[t].at = "waiting" =>
      /\ eng[t].pc \in {"cancel", "cancelUpd"}
      /\ eng[t].end = 0

C4_Witness ==
  /\ ctx["t1"].at = "waiting"
  /\ eng["t1"].pc = "cancelUpd"
  /\ eng["t1"].periodic >= 1
  /\ eng["t1"].fired < eng["t1"].rem

\* a call that returned err without touching the repository, a tick loop or a callback
NoEffect(t, err) ==
  /\ ret' = [t |-> t, op |-> "Start", err |-> err]
  /\ intervals' = intervals
  /\ eng' = eng
  /\ crashed' = crashed

\* C5: Start on a value whose state is StateRunning returns nil, updates no
\* record, does not call tick and invokes no callback.
C5_StartRunningNoOp ==
  [][\A t \in Tasks :
       (StartCall(t) /\ snap[t].State = StateRunning) => NoEffect(t, "nil")]_vars

C5_Witness ==
  /\ ret = [t |-> "t1", op |-> "Start", err |-> "nil"]
  /\ snap["t1"].State = StateRunning
  /\ snap["t1"].ID = 1
  /\ Stored(1).State # StateRunning

\* C6: Start on a value whose state is StateDone or StateCancelled returns
\* ErrIntervalCompleted, Start on a value whose state is none of the five
\* constants returns ErrInvalidState; neither updates a record, calls tick or
\* invokes a callback.
C6_StartRejects ==
  [][\A t \in Tasks :
       StartCall(t) =>
         /\ snap[t].State \in {StateDone, StateCancelled} => NoEffect(t, ErrIntervalCompleted)
         /\ snap[t].State \notin StateNotStarted..StateCancelled
              => NoEffect(t, ErrInvalidState)]_vars

C6_Witness ==
  /\ ret = [t |-> "t1", op |-> "Start", err |-> ErrIntervalCompleted]
  /\ snap["t1"].State = StateDone
  /\ snap["t1"].ID = 1
  /\ Stored(1).State = StateRunning

\* C7: Pause on a value whose state is not StateRunning returns
\* ErrIntervalNotRunning and leaves the repository unchanged; Pause on a
\* StateRunning value persists StatePaused and changes no other field of the
\* stored record.
C7_PauseContract ==
  [][\A t \in Tasks :
       PauseCall(t) =>
         IF snap[t].State # StateRunning
           THEN ret'.err = ErrIntervalNotRunning /\ intervals' = intervals
           ELSE /\ ret'.err = "nil"
                /\ intervals' = [intervals EXCEPT ![snap[t].ID].State = StatePaused]]_vars

\* the most recent record
LastOf(ivs) == ivs[Len(ivs)]

IsRest(i) == i.Category = CategoryShortBreak \/ i.Category = CategoryLongBreak

\* C8: nextCategory returns a store failure of Last unchanged, and returns
\* Pomodoro when the repository is empty and whenever the most recent interval
\* is a short or a long break.
C8_RestThenWork ==
  call.op = "nextCategory" =>
    /\ call.fail => call.res = [cat |-> "", err |-> ErrStore]
    /\ (~call.fail /\ Len(intervals) = 0) =>
         call.res = [cat |-> CategoryPomodoro, err |-> "nil"]
    /\ (~call.fail /\ Len(intervals) > 0 /\ IsRest(LastOf(intervals))) =>
         call.res = [cat |-> CategoryPomodoro, err |-> "nil"]

C8_Witness ==
  /\ call.op = "nextCategory"
  /\ ~call.fail
  /\ Len(intervals) >= 3
  /\ LastOf(intervals).Category = CategoryShortBreak
  /\ intervals[1].Category = CategoryLongBreak
  /\ call.res = [cat |-> CategoryPomodoro, err |-> "nil"]

\* the completed rest intervals of ivs[1..k], most recent first
RECURSIVE RestsDone(_, _)
RestsDone(ivs, k) ==
  IF k < 1 THEN <<>>
  ELSE IF IsRest(ivs[k]) /\ ivs[k].State \in {StateDone, StateCancelled}
    THEN <<ivs[k]>> \o RestsDone(ivs, k - 1)
  ELSE RestsDone(ivs, k - 1)

\* C9: when the most recent interval is a Pomodoro, nextCategory returns
\* LongBreak if fewer than 3 completed rests exist, ShortBreak if one of the 3
\* most recent completed rests is a LongBreak, and LongBreak otherwise.
C9_AfterWork ==
  (call.op = "nextCategory" /\ ~call.fail /\ Len(intervals) > 0
     /\ LastOf(intervals).Category = CategoryPomodoro) =>
    LET rs == RestsDone(intervals, Len(intervals)) IN
    call.res =
      [cat |-> IF Len(rs) < 3 THEN CategoryLongBreak
               ELSE IF HasLongBreak(SubSeq(rs, 1, 3)) THEN CategoryShortBreak
               ELSE CategoryLongBreak,
       err |-> "nil"]

\* C10: without store failure GetInterVal returns the most recent interval and
\* creates nothing when that interval exists and is neither done nor cancelled;
\* otherwise it creates exactly one record (on an empty repository a Pomodoro of
\* the configured duration in StateNotStarted) and returns it; a second call
\* right after returns the same ID and adds no record.
C10_GetOrCreate ==
  (call.op = "GetInterVal" /\ ~call.fail1 /\ ~call.fail2) =>
    LET pre == call.pre
        again == GetInterVal(intervals, readerCount, config, FALSE, FALSE) IN
    /\ call.res.err = "nil"
    /\ IF Len(pre) > 0 /\ LastOf(pre).State \notin {StateDone, StateCancelled}
         THEN call.res.i = LastOf(pre) /\ intervals = pre
         ELSE /\ intervals = Append(pre, call.res.i)
              /\ call.res.i.ID = Len(pre) + 1
              /\ call.res.i.State = StateNotStarted
              /\ Len(pre) = 0 =>
                   /\ call.res.i.Category = CategoryPomodoro
                   /\ call.res.i.PlannedDuration = config.PomodoroDuration
    /\ again.err = "nil" /\ again.i.ID = call.res.i.ID /\ again.ivs = intervals

\* the call of Update or ByID by task t ends with an error value, with the
\* records untouched and the process alive
Rejected(t) == intervals' = intervals /\ ~crashed' /\ op'[t].err # "nil" /\ ~Deadly(op'[t].err)

\* C11: Update with ID 0 fails with ErrInvalidID; Update and ByID with an ID that
\* no record has fail with an error value; none of these calls changes a record
\* or ends the process.
C11_InvalidIDRejected ==
  [][\A t \in Tasks :
       /\ (UpdateBody(t) /\ op[t].iv.ID \notin 1..Len(intervals)) =>
            /\ Rejected(t)
            /\ op[t].iv.ID = 0 => op'[t].err = ErrInvalidID
       /\ (ByIDBody(t) /\ op[t].n \notin 1..Len(intervals)) => Rejected(t)]_vars

\* the rest intervals of ivs[1..k], most recent first
RECURSIVE Rests(_, _)
Rests(ivs, k) ==
  IF k < 1 THEN <<>>
  ELSE IF IsRest(ivs[k]) THEN <<ivs[k]>> \o Rests(ivs, k - 1)
  ELSE Rests(ivs, k - 1)

\* the min(n, number of rests) most recently created rests, most recent first
MostRecentRests(ivs, n) ==
  LET rs == Rests(ivs, Len(ivs)) IN
  SubSeq(rs, 1, IF n < Len(rs) THEN n ELSE Len(rs))

\* C12: for every content of the repository and every n >= 0 the sequence
\* Breaks(n) returns is the min(n, number of rests) most recently created rest
\* intervals, most recent first (so Breaks(0) returns the empty sequence).
C12_BreaksMostRecent ==
  [][\A t \in Tasks :
       BreaksBody(t) => op'[t].data = MostRecentRests(intervals, op[t].n)]_vars

\* the lock a repository method needs: the write lock to change the records,
\* the read lock to read them
NeededLock(name) == IF name \in {"Create", "Update"} THEN "write" ELSE "read"

\* C20: a repository method that is reading or writing the records, or is about
\* to run its deferred unlock, holds the lock of its kind (the write lock in
\* Create and Update, a read lock in ByID and Breaks), and the mutex is locked
\* accordingly: no method touches the records without the lock and none
\* releases a lock it did not acquire.
C20_LockDiscipline ==
  \A t \in Tasks :
    op[t].pc \in {"body", "end"} =>
      /\ op[t].holds = NeededLock(op[t].name)
      /\ op[t].holds = "write" => writer
      /\ op[t].holds = "read" => readerCount >= 1

\* C13: a Start never changes a stored StartTime that is already set (time.Now()
\* is never 0 here, so 0 is the unset StartTime), and a Start with a StatePaused
\* value on a stored StatePaused record changes only the stored state, to
\* StateRunning: the stored StartTime and ActualDuration stay what they were.
C13_ResumeKeepsFields ==
  [][\A t \in Tasks :
       (StartCall(t) /\ snap[t].ID \in 1..Len(intervals)) =>
         /\ Stored(snap[t].ID).StartTime # 0 =>
              intervals'[snap[t].ID].StartTime = Stored(snap[t].ID).StartTime
         /\ (snap[t].State = StatePaused /\ Stored(snap[t].ID).State = StatePaused) =>
              intervals' = [intervals EXCEPT ![snap[t].ID].State = StateRunning]]_vars

\* C14: in every step, a stored state that is StateDone or StateCancelled stays
\* what it is, and a stored state that is not StateNotStarted does not become
\* StateNotStarted.
C14_MonotoneStates ==
  [][\A k \in 1..Len(intervals) :
       /\ Stored(k).State \in {StateDone, StateCancelled} =>
            intervals'[k].State = Stored(k).State
       /\ Stored(k).State # StateNotStarted =>
            intervals'[k].State # StateNotStarted]_vars

\* C15: no step lowers a stored ActualDuration, and only the Update of the tick
\* branch changes one: Start, Pause, the expiry branch and the cancellation
\* branch leave every stored ActualDuration as it is.
C15_ActualMonotone ==
  [][\A k \in 1..Len(intervals) :
       /\ intervals'[k].ActualDuration >= Stored(k).ActualDuration
       /\ intervals'[k].ActualDuration # Stored(k).ActualDuration =>
            \E t \in Tasks : TickUpdate(t)]_vars

\* C16: every stored interval has ActualDuration <= PlannedDuration.
C16_ActualWithinPlanned ==
  \A k \in 1..Len(intervals) : Stored(k).ActualDuration <= Stored(k).PlannedDuration

\* the tasks whose call of tick for record id has not returned
Loops(id) == {t \in Tasks : eng[t].pc # "idle" /\ eng[t].id = id}

\* C18: at most one call of tick is active for an interval at any time.
C18_OneLoop ==
  \A k \in 1..Len(intervals) : Cardinality(Loops(k)) <= 1

\* the call of tick by task t returns in this step
Returns(t) == eng[t].pc # "idle" /\ eng'[t].pc = "idle"

\* C17: a call of tick has called start exactly once from its first select on
\* (so before any call of periodic) and calls end at most once; end has been
\* called only in a call that is about to persist StateDone and return (no
\* periodic follows it); and a call returns nil on exactly one of three paths:
\* the expiry branch, with end called once and StateDone stored; the
\* cancellation branch, with end not called and StateCancelled stored; the tick
\* branch that read StatePaused, with end not called.
C17_CallbacksAndExit ==
  /\ [](\A t \in Tasks :
         /\ eng[t].pc \in {"idle", "enter"} =>
              eng[t].start = 0 /\ eng[t].periodic = 0 /\ eng[t].end = 0
         /\ eng[t].pc \notin {"idle", "enter"} => eng[t].start = 1
         /\ eng[t].end = IF eng[t].pc = "expireUpd" THEN 1 ELSE 0)
  /\ [][\A t \in Tasks :
          Returns(t) =>
            /\ ret' = [t |-> t, op |-> "Start", err |-> "nil"]
            /\ \/ /\ eng[t].pc = "expireUpd"
                  /\ eng[t].end = 1
                  /\ intervals'[eng[t].id].State = StateDone
               \/ /\ eng[t].pc = "cancelUpd"
                  /\ eng[t].end = 0
                  /\ intervals'[eng[t].id].State = StateCancelled
               \/ /\ eng[t].pc = "tick"
                  /\ eng[t].end = 0
                  /\ Stored(eng[t].id).State = StatePaused
                  /\ intervals' = intervals]_vars

C17_Witness ==
  /\ eng["t1"].pc = "expireUpd"
  /\ eng["t1"].start = 1
  /\ eng["t1"].periodic >= 2
  /\ eng["t1"].end = 1
  /\ hist.paused

\* C19: every call of tick (every Start that entered it) eventually returns
\* when the loop, its ticker and its timer are scheduled fairly (no task is
\* inside tick forever: each task is again and again outside it), and when it
\* returns nil the stored state of its interval is StateDone, StateCancelled or
\* StatePaused.
C19_StartReturns ==
  /\ \A t \in Tasks : []<>(eng[t].pc = "idle")
  /\ [][\A t \in Tasks :
          (Returns(t) /\ ret'.err = "nil") =>
            intervals'[eng[t].id].State \in {StateDone, StateCancelled, StatePaused}]_vars

C19_Witness ==
  /\ ret = [t |-> "t1", op |-> "Start", err |-> "nil"]
  /\ snap["t1"].State = StatePaused
  /\ Stored(snap["t1"].ID).State = StateDone
  /\ Stored(snap["t1"].ID).ActualDuration = Stored(snap["t1"].ID).PlannedDuration

====
